---- MODULE Spec2Model ----
(***************************************************************************)
(* Teacher registry (src/app.py): the /cadastro, /lista and /excluir       *)
(* routes over the professor table and the uploads/<municipio>/ tree.      *)
(*                                                                         *)
(* A CPF is a sequence of one-character strings, a photo path is the       *)
(* triple <<pasta, cpf, extensao>> (uploads/<pasta>/<cpf><extensao>), the  *)
(* table is a set of rows and the disk is the set of folders under         *)
(* uploads/ plus the set of files in them.                                 *)
(***************************************************************************)
EXTENDS Integers, Sequences, FiniteSets

VARIABLES rows, files, dirs, resp, nfail, procs

vars == <<rows, files, dirs, resp, nfail, procs>>

(* ---------------------------------------------------------------- bounds *)

\* Failures of filesystem or database calls injected in one run.
MaxFaults == 2

\* Ids a delete request may name (the table never holds more rows than
\* there are registrable CPFs, so larger ids are never assigned).
MaxId == 3

(* ------------------------------------------------------- program constants *)

CpfLen == 11

(* ------------------------------------------------------------ input values *)

DecimalDigits == {"0", "1", "2", "3", "4", "5", "6", "7", "8", "9"}

\* U+00B2 SUPERSCRIPT TWO: str.isdigit() is True for it, str.isdecimal() False.
SuperscriptTwo == "U+00B2"

CpfA == <<"1", "2", "3", "4", "5", "6", "7", "8", "9", "0", "1">>
CpfB == <<"9", "8", "7", "6", "5", "4", "3", "2", "1", "0", "0">>
CpfCurto == <<"1", "2", "3">>
CpfLetra == <<"1", "2", "3", "4", "5", "6", "7", "8", "9", "0", "a">>
CpfSobrescrito == <<"1", "2", "3", "4", "5", "6", "7", "8", "9", "0", SuperscriptTwo>>
CpfVazio == <<>>

NoPath == <<>>

(* ---------------------------------------------------------- pure functions *)

\* str.isdigit() on a non-empty string: every character has the Unicode
\* property Numeric_Type=Digit or Decimal, which includes U+00B2.
IsDigit(s) ==
    /\ Len(s) > 0
    /\ \A i \in 1..Len(s) : s[i] \in DecimalDigits \cup {SuperscriptTwo}

\* int(escola_id) succeeds
IntParseavel(escola_id) == escola_id \in {"101", "102", "103", "9999"}

ParseInt(escola_id) ==
    CASE escola_id = "101" -> 101
      [] escola_id = "102" -> 102
      [] escola_id = "103" -> 103
      [] escola_id = "9999" -> 9999
      [] OTHER -> 0

ESCOLA_MAPA ==
    [e \in {101, 102, 103} |->
        CASE e = 101 -> [nome |-> "EE Governador Modelo I", municipio |-> "Boa Vista"]
          [] e = 102 -> [nome |-> "CE Professora Antonia Santos", municipio |-> "Boa Vista"]
          [] e = 103 -> [nome |-> "Colegio Municipal Doutor Silva", municipio |-> "Caracarai (i acute)"]]

get_info_escola(escola_id) ==
    IF IntParseavel(escola_id)
    THEN IF ParseInt(escola_id) \in DOMAIN ESCOLA_MAPA
         THEN ESCOLA_MAPA[ParseInt(escola_id)]
         ELSE [nome |-> "ID (Nao encontrada)", municipio |-> "Desconhecido"]
    ELSE [nome |-> "ID Invalido", municipio |-> "Desconhecido"]

\* werkzeug secure_filename on the municipality names of ESCOLA_MAPA: NFKD to
\* ASCII drops the accent, whitespace becomes an underscore.
secure_filename(s) ==
    CASE s = "Boa Vista" -> "Boa_Vista"
      [] s = "Caracarai (i acute)" -> "Caracarai"
      [] OTHER -> s

\* os.path.splitext(foto.filename)[1].lower()
Extensao(filename) ==
    CASE filename = "foto.jpg" -> ".jpg"
      [] filename = "FOTO.PNG" -> ".png"
      [] OTHER -> ""

PastaMunicipio(escola_id) == secure_filename(get_info_escola(escola_id).municipio)

CaminhoSalvamento(cpf, escola_id, foto) ==
    <<PastaMunicipio(escola_id), cpf, Extensao(foto)>>

\* all([nome, cpf, escola_id, foto]): an absent or empty field is falsy
Todos(nome, cpf, escola_id, foto) ==
    /\ nome # ""
    /\ Len(cpf) > 0
    /\ escola_id # ""
    /\ foto # ""

\* The two validation returns of processar_cadastro: "campos", "cpf" or "ok".
Validacao(nome, cpf, escola_id, foto) ==
    IF ~Todos(nome, cpf, escola_id, foto) THEN "campos"
    ELSE IF ~(Len(cpf) = CpfLen /\ IsDigit(cpf)) THEN "cpf"
    ELSE "ok"

\* Professor.query.filter_by(cpf=cpf).first() finds a row
CpfCadastrado(rs, cpf) == \E r \in rs : r.cpf = cpf

\* CommitAceito without the unique constraint: every commit is accepted.
CommitSemRestricao(rs, cpf) == TRUE

\* The unique constraint on professor.cpf: the commit of a row is accepted
\* only when no committed row holds the same cpf.
CommitAceito(rs, cpf) == ~CpfCadastrado(rs, cpf)

Max(S) == CHOOSE x \in S : \A y \in S : y <= x

\* The integer primary key the table assigns to a new row.
NovoId(rs) == IF rs = {} THEN 1 ELSE Max({r.id : r \in rs}) + 1

NovoProfessor(rs, nome, cpf, escola_id, caminho) ==
    [id |-> NovoId(rs), nome |-> nome, cpf |-> cpf,
     escola_id |-> ParseInt(escola_id), caminho_foto |-> caminho]

\* os.listdir(pasta) is empty
PastaVazia(fs, pasta) == ~\E f \in fs : f[1] = pasta

(* ------------------------------------------------------- processar_cadastro *)

\* Calls that may fail in processar_cadastro. "save" is foto.save failing
\* before the destination is created, "escrita" is foto.save failing after
\* it created the destination (a partial file stays); "remove" is the
\* os.remove of the duplicate branch, "remove2" the os.remove of the except
\* handler.
FalhasCadastro == {"makedirs", "save", "escrita", "query", "commit", "remove", "remove2"}

\* Calls that may fail in excluir_professor ("rmdir": os.listdir or os.rmdir).
FalhasExcluir == {"remove", "rmdir", "commit"}

Resultado(status, msg, rs, fs, ds, falhas, remocoes, caminho) ==
    [status |-> status, msg |-> msg, rows |-> rs, files |-> fs, dirs |-> ds,
     falhas |-> falhas, remocoes |-> remocoes, caminho |-> caminho]

\* Step 2 of processar_cadastro: the municipality folder and the file.
\* ok = FALSE is the "except Exception" return of the upload block.
Upload(caminho, fs, ds, F) ==
    LET pasta == caminho[1] IN
    IF pasta \notin ds /\ "makedirs" \in F
    THEN [ok |-> FALSE, files |-> fs, dirs |-> ds, falhas |-> {"makedirs"}]
    ELSE LET ds1 == ds \cup {pasta} IN
         IF "save" \in F
         THEN [ok |-> FALSE, files |-> fs, dirs |-> ds1, falhas |-> {"save"}]
         ELSE IF "escrita" \in F
         THEN [ok |-> FALSE, files |-> fs \cup {caminho}, dirs |-> ds1, falhas |-> {"escrita"}]
         ELSE [ok |-> TRUE, files |-> fs \cup {caminho}, dirs |-> ds1, falhas |-> {}]

\* TratarExcecao without the compensating os.remove.
TratarExcecaoSemRemover(caminho, rs, fs, ds, F, hit, n) ==
    Resultado(500, "bd", rs, fs, ds, hit, n, caminho)

\* The "except Exception" handler of the database block: rollback, then
\* remove the file when it exists. An os.remove that raises here leaves the
\* view with an unhandled exception: Flask answers with its own 500 page.
\* hit: the failures met so far, n: the os.remove calls made so far.
TratarExcecao(caminho, rs, fs, ds, F, hit, n) ==
    IF caminho \in fs
    THEN IF "remove2" \in F
         THEN Resultado(500, "flask", rs, fs, ds, hit \cup {"remove2"}, n + 1, caminho)
         ELSE Resultado(500, "bd", rs, fs \ {caminho}, ds, hit, n + 1, caminho)
    ELSE Resultado(500, "bd", rs, fs, ds, hit, n, caminho)

\* Step 3 of processar_cadastro: duplicate check, insert, commit.
Persistencia(nome, cpf, escola_id, caminho, rs, fs, ds, F) ==
    IF "query" \in F
    THEN TratarExcecao(caminho, rs, fs, ds, F, {"query"}, 0)
    ELSE IF CpfCadastrado(rs, cpf)
    THEN IF caminho \in fs
         THEN IF "remove" \in F
              THEN TratarExcecao(caminho, rs, fs, ds, F, {"remove"}, 1)
              ELSE Resultado(409, "duplicado", rs, fs \ {caminho}, ds, {}, 1, caminho)
         ELSE Resultado(409, "duplicado", rs, fs, ds, {}, 0, caminho)
    ELSE IF ~IntParseavel(escola_id)
    THEN TratarExcecao(caminho, rs, fs, ds, F, {}, 0)
    ELSE IF "commit" \in F \/ ~CommitAceito(rs, cpf)
    THEN TratarExcecao(caminho, rs, fs, ds, F, {"commit"} \cap F, 0)
    ELSE Resultado(200, "sucesso",
                   rs \cup {NovoProfessor(rs, nome, cpf, escola_id, caminho)},
                   fs, ds, {}, 0, caminho)

\* The whole handler, run without interleaving, on table rs and disk (fs, ds).
processar_cadastro(nome, cpf, escola_id, foto, rs, fs, ds, F) ==
    LET v == Validacao(nome, cpf, escola_id, foto) IN
    IF v # "ok"
    THEN Resultado(400, v, rs, fs, ds, {}, 0, NoPath)
    ELSE LET caminho == CaminhoSalvamento(cpf, escola_id, foto)
             up == Upload(caminho, fs, ds, F)
         IN  IF ~up.ok
             THEN Resultado(500, "upload", rs, up.files, up.dirs, up.falhas, 0, caminho)
             ELSE Persistencia(nome, cpf, escola_id, caminho, rs, up.files, up.dirs, F)

(* -------------------------------------------------------- excluir_professor *)

\* ExcluirFoto that never touches the disk.
ExcluirFotoSemRemover(caminho, fs, ds, F) ==
    [files |-> fs, dirs |-> ds, falhas |-> {}]

\* The photo block of excluir_professor: remove the file when it exists,
\* then the folder when it is left empty; any exception is caught and printed.
ExcluirFoto(caminho, fs, ds, F) ==
    IF caminho \in fs
    THEN IF "remove" \in F
         THEN [files |-> fs, dirs |-> ds, falhas |-> {"remove"}]
         ELSE LET fs1 == fs \ {caminho} IN
              IF PastaVazia(fs1, caminho[1])
              THEN IF "rmdir" \in F
                   THEN [files |-> fs1, dirs |-> ds, falhas |-> {"rmdir"}]
                   ELSE [files |-> fs1, dirs |-> ds \ {caminho[1]}, falhas |-> {}]
              ELSE [files |-> fs1, dirs |-> ds, falhas |-> {}]
    ELSE [files |-> fs, dirs |-> ds, falhas |-> {}]

\* ExcluirRegistro that gives up when the photo block met a failure.
ExcluirRegistroAbortando(r, rs, disco, F) ==
    IF "commit" \in F \/ disco.falhas # {}
    THEN Resultado(500, "bd", rs, disco.files, disco.dirs,
                   disco.falhas \cup ({"commit"} \cap F), 0, r.caminho_foto)
    ELSE Resultado(302, "lista", rs \ {r}, disco.files, disco.dirs,
                   disco.falhas, 0, r.caminho_foto)

\* The database block of excluir_professor, after the photo block left disk.
ExcluirRegistro(r, rs, disco, F) ==
    IF "commit" \in F
    THEN Resultado(500, "bd", rs, disco.files, disco.dirs,
                   disco.falhas \cup {"commit"}, 0, r.caminho_foto)
    ELSE Resultado(302, "lista", rs \ {r}, disco.files, disco.dirs,
                   disco.falhas, 0, r.caminho_foto)

excluir_professor(professor_id, rs, fs, ds, F) ==
    IF ~\E r \in rs : r.id = professor_id
    THEN Resultado(404, "nao encontrado", rs, fs, ds, {}, 0, NoPath)
    ELSE LET r == CHOOSE x \in rs : x.id = professor_id IN
         ExcluirRegistro(r, rs, ExcluirFoto(r.caminho_foto, fs, ds, F), F)

\* listar_professores: the ids of the rows it renders
listar_professores(rs) == {r.id : r \in rs}

(* ------------------------------------------------------------------ requests *)

Pedido(nome, cpf, escola_id, foto) ==
    [nome |-> nome, cpf |-> cpf, escola_id |-> escola_id, foto |-> foto]

\* Requests that pass validation: two CPFs, a school of Boa Vista, a school
\* of Caracarai and a school id that is no integer, two file extensions.
PedidosValidos ==
    {Pedido("Ana", c, e, f) :
        c \in {CpfA, CpfB}, e \in {"101", "103", "abc"}, f \in {"foto.jpg", "FOTO.PNG"}}

\* One request per way of failing validation.
PedidosInvalidos ==
    {Pedido("", CpfA, "101", "foto.jpg"), Pedido("Ana", CpfVazio, "101", "foto.jpg"),
     Pedido("Ana", CpfA, "", "foto.jpg"), Pedido("Ana", CpfA, "101", ""),
     Pedido("Ana", CpfCurto, "101", "foto.jpg"), Pedido("Ana", CpfLetra, "101", "foto.jpg")}

PedidosSpec == PedidosValidos \cup PedidosInvalidos

\* The requests of the runs with failing calls: all pass validation.
PedidosFalhas ==
    {Pedido("Ana", c, e, "foto.jpg") : c \in {CpfA, CpfB}, e \in {"101", "abc"}}

\* Every combination of present and absent fields with every shape of CPF.
PedidosValidacao ==
    {Pedido(n, c, e, f) :
        n \in {"Ana", ""},
        c \in {CpfA, CpfB, CpfCurto, CpfLetra, CpfSobrescrito, CpfVazio},
        e \in {"101", ""}, f \in {"foto.jpg", ""}}

\* The sets of calls that may be made to fail in one request, at most k.
EscolhasDeFalha(S, k) == {F \in SUBSET S : Cardinality(F) <= k}

(* --------------------------------------------------------------------- state *)

Procs == {1, 2}

Ocioso == [pc |-> "ocioso", cpf |-> CpfVazio, escola_id |-> "", caminho |-> NoPath,
           status |-> 0, msg |-> ""]

SemResposta ==
    [op |-> "nenhuma", status |-> 0, msg |-> "", cpf |-> CpfVazio, escola_id |-> "",
     faltando |-> FALSE, id |-> 0, caminho |-> NoPath, falhas |-> {}, remocoes |-> 0,
     lista |-> {}]

\* The table is empty and uploads/ holds no folder and no file.
Init ==
    /\ rows = {}
    /\ files = {}
    /\ dirs = {}
    /\ resp = SemResposta
    /\ nfail = 0
    /\ procs = [p \in Procs |-> Ocioso]

(* -------------------------------------------- requests served one at a time *)

\* POST /cadastro with a request of Pedidos, at most k calls failing.
Cadastrar(Pedidos, k) ==
    \E p \in Pedidos :
      \E F \in EscolhasDeFalha(FalhasCadastro, k) :
        LET out == processar_cadastro(p.nome, p.cpf, p.escola_id, p.foto,
                                      rows, files, dirs, F)
        IN  /\ out.falhas = F
            /\ rows' = out.rows
            /\ files' = out.files
            /\ dirs' = out.dirs
            /\ nfail' = nfail + Cardinality(F)
            /\ resp' = [op |-> "cadastro", status |-> out.status, msg |-> out.msg,
                        cpf |-> p.cpf, escola_id |-> p.escola_id,
                        faltando |-> ~Todos(p.nome, p.cpf, p.escola_id, p.foto),
                        id |-> 0, caminho |-> out.caminho, falhas |-> out.falhas,
                        remocoes |-> out.remocoes, lista |-> {}]
            /\ UNCHANGED procs

\* GET /excluir/<professor_id>, at most k calls failing.
Excluir(k) ==
    \E professor_id \in 1..MaxId :
      \E F \in EscolhasDeFalha(FalhasExcluir, k) :
        LET out == excluir_professor(professor_id, rows, files, dirs, F)
        IN  /\ out.falhas = F
            /\ rows' = out.rows
            /\ files' = out.files
            /\ dirs' = out.dirs
            /\ nfail' = nfail + Cardinality(F)
            /\ resp' = [op |-> "excluir", status |-> out.status, msg |-> out.msg,
                        cpf |-> CpfVazio, escola_id |-> "", faltando |-> FALSE,
                        id |-> professor_id, caminho |-> out.caminho,
                        falhas |-> out.falhas, remocoes |-> 0, lista |-> {}]
            /\ UNCHANGED procs

\* GET /lista
Listar ==
    /\ resp' = [op |-> "lista", status |-> 200, msg |-> "", cpf |-> CpfVazio,
                escola_id |-> "", faltando |-> FALSE, id |-> 0, caminho |-> NoPath,
                falhas |-> {}, remocoes |-> 0, lista |-> listar_professores(rows)]
    /\ UNCHANGED <<rows, files, dirs, nfail, procs>>

Next ==
    \/ Cadastrar(PedidosSpec, 0)
    \/ Excluir(0)
    \/ Listar

\* Requests served one at a time, no call fails.
Spec == Init /\ [][Next]_vars

NextFalhas ==
    \/ Cadastrar(PedidosFalhas, MaxFaults - nfail)
    \/ Excluir(MaxFaults - nfail)
    \/ Listar

\* Requests served one at a time; filesystem and database calls may fail,
\* at most MaxFaults of them in one run.
SpecFalhas == Init /\ [][NextFalhas]_vars

NextValidacao ==
    \/ Cadastrar(PedidosValidacao, 0)
    \/ Excluir(0)
    \/ Listar

\* Requests served one at a time, no call fails, every shape of input.
SpecValidacao == Init /\ [][NextValidacao]_vars

(* ------------------------------------- concurrent requests to POST /cadastro *)

\* Each process serves one POST /cadastro; every step below is one call of
\* the handler, so the steps of the two requests interleave freely. No call
\* fails by itself here: an exception is only ever the result of the
\* interleaving (os.makedirs on a folder that now exists, the unique
\* constraint at commit, os.remove of a file that is gone).
PedidosConc ==
    {Pedido("Ana", c, e, "foto.jpg") : c \in {CpfA, CpfB}, e \in {"101", "102", "103"}}

Fim(p, status, msg) ==
    procs' = [procs EXCEPT ![p].pc = "fim", ![p].status = status, ![p].msg = msg]

Passo(p, pc) == procs' = [procs EXCEPT ![p].pc = pc]

\* The request arrives and passes or fails validation.
Iniciar(p) ==
    /\ procs[p].pc = "ocioso"
    /\ \E r \in PedidosConc :
         LET v == Validacao(r.nome, r.cpf, r.escola_id, r.foto) IN
         procs' = [procs EXCEPT ![p] =
            IF v = "ok"
            THEN [pc |-> "exists", cpf |-> r.cpf, escola_id |-> r.escola_id,
                  caminho |-> CaminhoSalvamento(r.cpf, r.escola_id, r.foto),
                  status |-> 0, msg |-> ""]
            ELSE [pc |-> "fim", cpf |-> r.cpf, escola_id |-> r.escola_id,
                  caminho |-> NoPath, status |-> 400, msg |-> v]]
    /\ UNCHANGED <<rows, files, dirs, resp, nfail>>

\* if not os.path.exists(pasta_municipio)
ChecarPasta(p) ==
    /\ procs[p].pc = "exists"
    /\ Passo(p, IF procs[p].caminho[1] \in dirs THEN "save" ELSE "makedirs")
    /\ UNCHANGED <<rows, files, dirs, resp, nfail>>

\* os.makedirs(pasta_municipio): FileExistsError when the folder exists
CriarPasta(p) ==
    /\ procs[p].pc = "makedirs"
    /\ IF procs[p].caminho[1] \in dirs
       THEN Fim(p, 500, "upload") /\ UNCHANGED dirs
       ELSE Passo(p, "save") /\ dirs' = dirs \cup {procs[p].caminho[1]}
    /\ UNCHANGED <<rows, files, resp, nfail>>

\* foto.save(caminho_salvamento)
SalvarFoto(p) ==
    /\ procs[p].pc = "save"
    /\ IF procs[p].caminho[1] \in dirs
       THEN Passo(p, "query") /\ files' = files \cup {procs[p].caminho}
       ELSE Fim(p, 500, "upload") /\ UNCHANGED files
    /\ UNCHANGED <<rows, dirs, resp, nfail>>

\* Professor.query.filter_by(cpf=cpf).first()
ConsultarCpf(p) ==
    /\ procs[p].pc = "query"
    /\ Passo(p, IF CpfCadastrado(rows, procs[p].cpf) THEN "dup_exists" ELSE "commit")
    /\ UNCHANGED <<rows, files, dirs, resp, nfail>>

\* duplicate branch: if os.path.exists(caminho_salvamento)
DuplicadoChecar(p) ==
    /\ procs[p].pc = "dup_exists"
    /\ IF procs[p].caminho \in files
       THEN Passo(p, "dup_remove")
       ELSE Fim(p, 409, "duplicado")
    /\ UNCHANGED <<rows, files, dirs, resp, nfail>>

\* duplicate branch: os.remove(caminho_salvamento)
DuplicadoRemover(p) ==
    /\ procs[p].pc = "dup_remove"
    /\ IF procs[p].caminho \in files
       THEN Fim(p, 409, "duplicado") /\ files' = files \ {procs[p].caminho}
       ELSE Passo(p, "except") /\ UNCHANGED files
    /\ UNCHANGED <<rows, dirs, resp, nfail>>

\* Professor(...), db.session.add, db.session.commit
Confirmar(p) ==
    /\ procs[p].pc = "commit"
    /\ IF IntParseavel(procs[p].escola_id) /\ CommitAceito(rows, procs[p].cpf)
       THEN /\ rows' = rows \cup {NovoProfessor(rows, "Ana", procs[p].cpf,
                                                procs[p].escola_id, procs[p].caminho)}
            /\ Fim(p, 200, "sucesso")
       ELSE Passo(p, "except") /\ UNCHANGED rows
    /\ UNCHANGED <<files, dirs, resp, nfail>>

\* except handler: rollback, if caminho_salvamento and os.path.exists(...)
ExcecaoChecar(p) ==
    /\ procs[p].pc = "except"
    /\ IF procs[p].caminho \in files
       THEN Passo(p, "except_remove")
       ELSE Fim(p, 500, "bd")
    /\ UNCHANGED <<rows, files, dirs, resp, nfail>>

\* except handler: os.remove(caminho_salvamento)
ExcecaoRemover(p) ==
    /\ procs[p].pc = "except_remove"
    /\ IF procs[p].caminho \in files
       THEN Fim(p, 500, "bd") /\ files' = files \ {procs[p].caminho}
       ELSE Fim(p, 500, "flask") /\ UNCHANGED files
    /\ UNCHANGED <<rows, dirs, resp, nfail>>

NextConc ==
    \E p \in Procs :
        \/ Iniciar(p)
        \/ ChecarPasta(p)
        \/ CriarPasta(p)
        \/ SalvarFoto(p)
        \/ ConsultarCpf(p)
        \/ DuplicadoChecar(p)
        \/ DuplicadoRemover(p)
        \/ Confirmar(p)
        \/ ExcecaoChecar(p)
        \/ ExcecaoRemover(p)

\* Two requests to POST /cadastro served concurrently.
SpecConc == Init /\ [][NextConc]_vars

(* -------------------------------------------------------------------- claims *)

\* The claims' reading of "exactly 11 decimal digits".
OnzeDigitosDecimais(cpf) ==
    /\ Len(cpf) = 11
    /\ \A i \in 1..Len(cpf) : cpf[i] \in DecimalDigits

\* C1: in every state reached by register and delete requests, every stored
\* row's caminho_foto names a file that exists on disk.
C1_FotoExiste == \A r \in rows : r.caminho_foto \in files

\* C2: when a register request succeeded and the next register request
\* carries the same CPF (any school, any extension), that request answers 409
\* and leaves exactly one row and exactly one file for the CPF: the first
\* request's file, and not the second's.
C2_SegundoCadastro ==
    [][(/\ resp.op = "cadastro" /\ resp.status = 200
        /\ resp'.op = "cadastro" /\ resp'.cpf = resp.cpf /\ ~resp'.faltando)
       => (/\ resp'.status = 409
           /\ Cardinality({r \in rows' : r.cpf = resp.cpf}) = 1
           /\ Cardinality({f \in files' : f[2] = resp.cpf}) = 1
           /\ resp.caminho \in files'
           /\ (resp'.caminho # resp.caminho => resp'.caminho \notin files'))]_vars

\* C3: no two stored rows hold the same CPF, in every state reached by
\* interleaving the steps of concurrent register requests.
C3_CpfUnico == \A r1 \in rows : \A r2 \in rows : r1.cpf = r2.cpf => r1 = r2

\* C3's case: two concurrent requests with one CPF both passed the existence
\* check; one committed and the other was refused at commit.
C3_CorridaNoCommit ==
    \E p \in Procs : \E q \in Procs :
        /\ p # q
        /\ procs[p].pc = "fim" /\ procs[q].pc = "fim"
        /\ procs[p].cpf = procs[q].cpf
        /\ procs[p].status = 200
        /\ procs[q].status = 500 /\ procs[q].msg = "bd"

\* C4: a register request with a missing field, or whose CPF is not exactly
\* 11 decimal digits, answers 400 and changes no row, file or folder.
C4_Validacao ==
    [][(resp'.op = "cadastro" /\ (resp'.faltando \/ ~OnzeDigitosDecimais(resp'.cpf)))
       => (/\ resp'.status = 400
           /\ rows' = rows /\ files' = files /\ dirs' = dirs)]_vars

\* C5: a delete of an existing id in which no call fails leaves neither the
\* row nor the file of its caminho_foto; a listing right after a successful
\* delete does not hold the id; a second delete of the id right after answers
\* 404 and changes no row, file or folder.
C5_Excluir ==
    [][/\ (resp'.op = "excluir" /\ resp'.falhas = {})
            => \A r \in rows : r.id = resp'.id =>
                  /\ ~\E x \in rows' : x.id = r.id
                  /\ r.caminho_foto \notin files'
                  /\ resp'.status = 302
       /\ (resp.op = "excluir" /\ resp.status = 302 /\ resp'.op = "lista")
            => resp.id \notin resp'.lista
       /\ (resp.op = "excluir" /\ resp.status = 302 /\ resp'.op = "excluir"
             /\ resp'.id = resp.id)
            => /\ resp'.status = 404
               /\ rows' = rows /\ files' = files /\ dirs' = dirs]_vars

\* C5's case: a delete without failures has removed a row and its file while
\* other rows remain.
C5_Excluido ==
    /\ resp.op = "excluir" /\ resp.status = 302 /\ resp.falhas = {}
    /\ resp.caminho # NoPath /\ resp.caminho \notin files
    /\ rows # {}
    /\ ~\E r \in rows : r.id = resp.id

\* C6: deleting the last row of a municipality leaves its folder removed;
\* deleting a row while photos of other rows remain in the folder leaves the
\* folder and those photos in place.
C6_PastaMunicipio ==
    [][(resp'.op = "excluir" /\ resp'.status = 302)
       => LET pasta == resp'.caminho[1]
              irmaos == {r \in rows' : r.caminho_foto[1] = pasta /\ r.caminho_foto \in files}
          IN  /\ (~\E r \in rows' : r.caminho_foto[1] = pasta) => pasta \notin dirs'
              /\ irmaos # {} =>
                    /\ pasta \in dirs'
                    /\ \A r \in irmaos : r.caminho_foto \in files']_vars

\* C7: two concurrent register requests with different valid CPFs and schools
\* of one municipality both succeed, whatever the interleaving.
C7_AmbosSucedem ==
    \A p \in Procs : \A q \in Procs :
        (/\ p # q
         /\ procs[p].pc = "fim" /\ procs[q].pc = "fim"
         /\ procs[p].caminho # NoPath /\ procs[q].caminho # NoPath
         /\ procs[p].cpf # procs[q].cpf
         /\ procs[p].caminho[1] = procs[q].caminho[1])
        => (procs[p].status = 200 /\ procs[q].status = 200)

\* C8: when the compensating os.remove of a register request fails, the
\* answer is what it is when the removal succeeds (409 for a duplicate CPF,
\* the route's 500 for a failed insert) and the removal is attempted once.
C8_LimpezaFalha ==
    [][(/\ resp'.op = "cadastro"
        /\ resp'.falhas \cap {"remove", "remove2"} # {}
        /\ "query" \notin resp'.falhas)
       => (/\ resp'.remocoes = 1
           /\ IF CpfCadastrado(rows, resp'.cpf)
              THEN resp'.status = 409
              ELSE resp'.status = 500 /\ resp'.msg = "bd")]_vars

\* A register request passed validation, wrote its file, found no row with
\* its CPF, and its insert or commit failed.
C9_InsertFalhou ==
    /\ resp'.op = "cadastro"
    /\ resp'.caminho # NoPath
    /\ resp'.falhas \cap {"makedirs", "save", "escrita", "query"} = {}
    /\ ~CpfCadastrado(rows, resp'.cpf)
    /\ ("commit" \in resp'.falhas \/ ~IntParseavel(resp'.escola_id))

C10_ExcluirComFalha ==
    [][(resp'.op = "excluir")
       => \A r \in rows : r.id = resp'.id =>
            /\ (resp'.falhas \cap {"remove", "rmdir"} # {} /\ "commit" \notin resp'.falhas)
                  => (r \notin rows' /\ resp'.status = 302)
            /\ "commit" \in resp'.falhas
                  => /\ resp'.status = 500
                     /\ rows' = rows
                     /\ (r.caminho_foto \in files /\ "remove" \notin resp'.falhas)
                            => r.caminho_foto \notin files']_vars

\* C10's case: os.remove failed in a delete, the file stayed and the row went.
C10_FotoFicou ==
    /\ resp.op = "excluir" /\ resp.status = 302
    /\ "remove" \in resp.falhas
    /\ resp.caminho \in files
    /\ ~\E r \in rows : r.id = resp.id

====
